---- MODULE Spec2Model ----
(***************************************************************************)
(* Bharati Braille mapping tables (backend/mappings.py) and the            *)
(* transliteration engine that consumes them.                              *)
(*                                                                         *)
(* A Python str is a sequence of Unicode code points, written here as a    *)
(* TLA+ sequence of numbers (\H2808 is U+2808).  A dict display is the     *)
(* sequence of its key/value items in source order; evaluating it is the   *)
(* Load... actions below, which give Python's result for a repeated key.   *)
(***************************************************************************)
EXTENDS Integers, Sequences, FiniteSets, TLC

(***************************************************************************)
(* The tables, item by item as written in the source.  Each item is        *)
(* << Braille key, tuple of Devanagari forms >>; the trailing comment is   *)
(* the source line and the glyphs.                                         *)
(***************************************************************************)

\* Faulty variant: the constant names ⠄ (dot 3) instead of ⠈ (dot 4).
halanth_WrongCell == <<\H2804>>

\* This is used for the "halanth-reversal".
halanth == <<\H2808>>  \* 52: ⠈

\* Faulty variant: the two conjuncts' keys exchanged.
priority_KeysSwapped ==
    << << <<\H2831>>, << <<\H0915, \H094D, \H0937>> >> >>,
       << <<\H281F>>, << <<\H091C, \H094D, \H091E>> >> >> >>

\* Priority characters: converted in the first pass.
braille_to_devanagari_priority ==
    << << <<\H281F>>, << <<\H0915, \H094D, \H0937>> >> >>,  \* 60: ⠟ : क्ष
       << <<\H2831>>, << <<\H091C, \H094D, \H091E>> >> >> >>  \* 62: ⠱ : ज्ञ

SpecialCharacters ==
    << << <<\H2808>>, << <<\H094D>> >> >>,  \* 71: ⠈ : ्
       << <<\H2802>>, << <<\H002C>> >> >>,  \* 72: ⠂ : ,
       << <<\H2806>>, << <<\H003B>> >> >>,  \* 73: ⠆ : ;
       << <<\H2812>>, << <<\H003A>> >> >>,  \* 74: ⠒ : :
       << <<\H2832>>, << <<\H0964>>, <<\H0965>> >> >>,  \* 78: ⠲ : । ॥
       << <<\H2816>>, << <<\H0021>> >> >>,  \* 79: ⠖ : !
       << <<\H2826>>, << <<\H003F>> >> >>,  \* 80: ⠦ : ?
       << <<\H2826>>, << <<\H201C>> >> >>,  \* 82: ⠦ : “
       << <<\H2834>>, << <<\H201D>> >> >>,  \* 83: ⠴ : ”
       << <<\H2820, \H2826>>, << <<\H2018>> >> >>,  \* 84: ⠠⠦ : ‘
       << <<\H2834, \H2804>>, << <<\H2019>> >> >>,  \* 85: ⠴⠄ : ’
       << <<\H2836>>, << <<\H0028>>, <<\H0029>> >> >>,  \* 86: ⠶ : ( )
       << <<\H2820, \H2836>>, << <<\H005B>> >> >>,  \* 87: ⠠⠶ : [
       << <<\H2836, \H2804>>, << <<\H005D>> >> >>,  \* 88: ⠶⠄ : ]
       << <<\H2820, \H2820, \H2820>>, << <<\H2026>> >> >>,  \* 89: ⠠⠠⠠ : …
       << <<\H2814, \H2814>>, << <<\H002A>> >> >> >>  \* 90: ⠔⠔ : *

\* Faulty variant: only the ASCII digits are listed.
Numerals_AsciiOnly ==
    << << <<\H283C, \H2801>>, << <<\H0031>> >> >>,
       << <<\H283C, \H2803>>, << <<\H0032>> >> >>,
       << <<\H283C, \H2809>>, << <<\H0033>> >> >>,
       << <<\H283C, \H2819>>, << <<\H0034>> >> >>,
       << <<\H283C, \H2811>>, << <<\H0035>> >> >>,
       << <<\H283C, \H280B>>, << <<\H0036>> >> >>,
       << <<\H283C, \H281B>>, << <<\H0037>> >> >>,
       << <<\H283C, \H2813>>, << <<\H0038>> >> >>,
       << <<\H283C, \H280A>>, << <<\H0039>> >> >>,
       << <<\H283C, \H281A>>, << <<\H0030>> >> >> >>

Numerals ==
    << << <<\H283C, \H2801>>, << <<\H0031>>, <<\H0967>> >> >>,  \* 92: ⠼⠁ : 1 १
       << <<\H283C, \H2803>>, << <<\H0032>>, <<\H0968>> >> >>,  \* 93: ⠼⠃ : 2 २
       << <<\H283C, \H2809>>, << <<\H0033>>, <<\H0969>> >> >>,  \* 94: ⠼⠉ : 3 ३
       << <<\H283C, \H2819>>, << <<\H0034>>, <<\H096A>> >> >>,  \* 95: ⠼⠙ : 4 ४
       << <<\H283C, \H2811>>, << <<\H0035>>, <<\H096B>> >> >>,  \* 96: ⠼⠑ : 5 ५
       << <<\H283C, \H280B>>, << <<\H0036>>, <<\H096C>> >> >>,  \* 97: ⠼⠋ : 6 ६
       << <<\H283C, \H281B>>, << <<\H0037>>, <<\H096D>> >> >>,  \* 98: ⠼⠛ : 7 ७
       << <<\H283C, \H2813>>, << <<\H0038>>, <<\H096E>> >> >>,  \* 99: ⠼⠓ : 8 ८
       << <<\H283C, \H280A>>, << <<\H0039>>, <<\H096F>> >> >>,  \* 100: ⠼⠊ : 9 ९
       << <<\H283C, \H281A>>, << <<\H0030>>, <<\H0966>> >> >> >>  \* 101: ⠼⠚ : 0 ०

MathSymbols ==
    << << <<\H282C>>, << <<\H002B>> >> >>,  \* 107: ⠬ : +
       << <<\H2824>>, << <<\H2212>> >> >>,  \* 108: ⠤ : −
       << <<\H2808, \H2821>>, << <<\H00D7>> >> >>,  \* 109: ⠈⠡ : ×
       << <<\H2828, \H280C>>, << <<\H00F7>> >> >>,  \* 110: ⠨⠌ : ÷
       << <<\H2828, \H2805>>, << <<\H003D>> >> >>,  \* 111: ⠨⠅ : =
       << <<\H2808, \H2834, \H2805>>, << <<\H0025>> >> >> >>  \* 112: ⠈⠴⠅ : %

Vowels ==
    << << <<\H2820>>, << <<\H0903>> >> >>,  \* 115: ⠠ : ः
       << <<\H2830>>, << <<\H0902>> >> >>,  \* 116: ⠰ : ं
       << <<\H2804>>, << <<\H0901>> >> >>,  \* 117: ⠄ : ँ
       << <<\H2801>>, << <<\H0905>> >> >>,  \* 118: ⠁ : अ
       << <<\H281C>>, << <<\H0906>>, <<\H093E>> >> >>,  \* 119: ⠜ : आ ा
       << <<\H280A>>, << <<\H0907>>, <<\H093F>> >> >>,  \* 120: ⠊ : इ ि
       << <<\H2814>>, << <<\H0908>>, <<\H0940>> >> >>,  \* 121: ⠔ : ई ी
       << <<\H2825>>, << <<\H0909>>, <<\H0941>> >> >>,  \* 122: ⠥ : उ ु
       << <<\H2833>>, << <<\H090A>>, <<\H0942>> >> >>,  \* 123: ⠳ : ऊ ू
       << <<\H2810, \H2817>>, << <<\H0960>>, <<\H090B>>, <<\H0943>>, <<\H0944>> >> >>,  \* 125: ⠐⠗ : ॠ ऋ ृ ॄ
       << <<\H2822>>, << <<\H090D>>, <<\H0945>> >> >>,  \* 126: ⠢ : ऍ ॅ
       << <<\H2811>>, << <<\H090E>>, <<\H090F>>, <<\H0946>>, <<\H0947>> >> >>,  \* 128: ⠑ : ऎ ए ॆ े
       << <<\H280C>>, << <<\H0910>>, <<\H0948>> >> >>,  \* 129: ⠌ : ऐ ै
       << <<\H282D>>, << <<\H0911>> >> >>,  \* 130: ⠭ : ऑ
       << <<\H2815>>, << <<\H0912>>, <<\H0913>>, <<\H094A>>, <<\H094B>> >> >>,  \* 132: ⠕ : ऒ ओ ॊ ो
       << <<\H282A>>, << <<\H0914>>, <<\H094C>> >> >> >>  \* 133: ⠪ : औ ौ

Consonants ==
    << << <<\H2805>>, << <<\H0915>>, <<\H0958>> >> >>,  \* 135: ⠅ : क क़
       << <<\H2828>>, << <<\H0916>>, <<\H0959>> >> >>,  \* 136: ⠨ : ख ख़
       << <<\H281B>>, << <<\H0917>>, <<\H095A>> >> >>,  \* 137: ⠛ : ग ग़
       << <<\H2823>>, << <<\H0918>> >> >>,  \* 138: ⠣ : घ
       << <<\H282C>>, << <<\H0919>> >> >>,  \* 139: ⠬ : ङ
       << <<\H2809>>, << <<\H091A>> >> >>,  \* 140: ⠉ : च
       << <<\H2821>>, << <<\H091B>> >> >>,  \* 141: ⠡ : छ
       << <<\H281A>>, << <<\H091C>>, <<\H095B>> >> >>,  \* 143: ⠚ : ज ज़
       << <<\H2834>>, << <<\H091D>> >> >>,  \* 144: ⠴ : झ
       << <<\H2812>>, << <<\H091E>> >> >>,  \* 145: ⠒ : ञ
       << <<\H283E>>, << <<\H091F>> >> >>,  \* 146: ⠾ : ट
       << <<\H283A>>, << <<\H0920>> >> >>,  \* 147: ⠺ : ठ
       << <<\H282B>>, << <<\H0921>> >> >>,  \* 148: ⠫ : ड
       << <<\H283F>>, << <<\H0922>> >> >>,  \* 149: ⠿ : ढ
       << <<\H283C>>, << <<\H0923>> >> >>,  \* 150: ⠼ : ण
       << <<\H281E>>, << <<\H0924>> >> >>,  \* 151: ⠞ : त
       << <<\H2839>>, << <<\H0925>> >> >>,  \* 152: ⠹ : थ
       << <<\H2819>>, << <<\H0926>> >> >>,  \* 153: ⠙ : द
       << <<\H282E>>, << <<\H0927>> >> >>,  \* 154: ⠮ : ध
       << <<\H281D>>, << <<\H0928>>, <<\H0929>> >> >>,  \* 155: ⠝ : न ऩ
       << <<\H280F>>, << <<\H092A>> >> >>,  \* 156: ⠏ : प
       << <<\H2816>>, << <<\H092B>>, <<\H095E>> >> >>,  \* 157: ⠖ : फ फ़
       << <<\H2803>>, << <<\H092C>> >> >>,  \* 158: ⠃ : ब
       << <<\H2818>>, << <<\H092D>> >> >>,  \* 159: ⠘ : भ
       << <<\H280D>>, << <<\H092E>> >> >>,  \* 160: ⠍ : म
       << <<\H283D>>, << <<\H092F>>, <<\H095F>> >> >>,  \* 161: ⠽ : य य़
       << <<\H2817>>, << <<\H0930>>, <<\H0931>> >> >>,  \* 162: ⠗ : र ऱ
       << <<\H2807>>, << <<\H0932>> >> >>,  \* 163: ⠇ : ल
       << <<\H2838>>, << <<\H0933>>, <<\H0934>> >> >>,  \* 164: ⠸ : ळ ऴ
       << <<\H2827>>, << <<\H0935>> >> >>,  \* 165: ⠧ : व
       << <<\H2829>>, << <<\H0936>> >> >>,  \* 166: ⠩ : श
       << <<\H282F>>, << <<\H0937>> >> >>,  \* 167: ⠯ : ष
       << <<\H280E>>, << <<\H0938>> >> >>,  \* 168: ⠎ : स
       << <<\H2813>>, << <<\H0939>> >> >> >>  \* 169: ⠓ : ह

\* Faulty variants of the last section.
\* ड़ keyed ⠅, the key of क:
NuktaaStuff_ClashKa ==
    << << <<\H2805>>, << <<\H095C>> >> >>,
       << <<\H2810, \H283B>>, << <<\H095D>> >> >> >>

\* ढ़ keyed ⠐⠗, the key of the ॠ vowels:
NuktaaStuff_ClashRi ==
    << << <<\H283B>>, << <<\H095C>> >> >>,
       << <<\H2810, \H2817>>, << <<\H095D>> >> >> >>

\* ड़ listed under both keys:
NuktaaStuff_ListedTwice ==
    << << <<\H283B>>, << <<\H095C>> >> >>,
       << <<\H2810, \H283B>>, << <<\H095D>>, <<\H095C>> >> >> >>

\* ⠻ typed with dot 7 added (U+287B):
NuktaaStuff_Dot7 ==
    << << <<\H287B>>, << <<\H095C>> >> >>,
       << <<\H2810, \H283B>>, << <<\H095D>> >> >> >>

NuktaaStuff ==
    << << <<\H283B>>, << <<\H095C>> >> >>,  \* 172: ⠻ : ड़
       << <<\H2810, \H283B>>, << <<\H095D>> >> >> >>  \* 173: ⠐⠻ : ढ़

\* "Normal" characters: the items of the dict display, in source order.
braille_to_devanagari ==
    SpecialCharacters \o Numerals \o MathSymbols \o Vowels \o Consonants \o NuktaaStuff

\* Devanagari characters that have no mapping (documentation only).
without_mapping ==
    << << <<\H0904>>, <<\H0972>>, <<\H090C>>, <<\H0961>>, <<\H0962>>, <<\H0963>>,
          <<\H097B>>, <<\H097C>>, <<\H097E>>, <<\H097F>>, <<\H097D>>, <<\H0966>>,
          <<\H0967>>, <<\H0968>>, <<\H0969>>, <<\H096A>>, <<\H096B>>, <<\H096C>>,
          <<\H096D>>, <<\H096E>>, <<\H096F>> >>,  \* 180-181
       << <<\H0900>>, <<\H093A>>, <<\H093B>>, <<\H093C>>, <<\H094E>>, <<\H094F>>,
          <<\H0950>>, <<\H0951>>, <<\H0952>>, <<\H0953>>, <<\H0954>>, <<\H0955>>,
          <<\H0956>>, <<\H0957>>, <<\H0970>>, <<\H0971>>, <<\H0973>>, <<\H0974>>,
          <<\H0975>>, <<\H0976>>, <<\H0977>>, <<\H0979>>, <<\H097A>> >>,  \* 183-184
       << <<\HA8E0>>, <<\HA8E1>>, <<\HA8E2>>, <<\HA8E3>>, <<\HA8E4>>, <<\HA8E5>>,
          <<\HA8E6>>, <<\HA8E7>>, <<\HA8E8>>, <<\HA8E9>>, <<\HA8EA>>, <<\HA8EB>>,
          <<\HA8EC>>, <<\HA8ED>>, <<\HA8EE>>, <<\HA8EF>>, <<\HA8F0>>, <<\HA8F1>>,
          <<\H002C, \HA8F2>>, <<\HA8F3>>, <<\HA8F4>>, <<\HA8F5>>, <<\HA8F6>>, <<\HA8F7>>,
          <<\HA8F8>>, <<\HA8F9>>, <<\HA8FA>>, <<\HA8FB>> >>,  \* 186-187
       << <<\H1CD0>>, <<\H1CD1>>, <<\H1CD2>>, <<\H1CD3>>, <<\H1CD4>>, <<\H1CD5>>,
          <<\H1CD6>>, <<\H1CD7>>, <<\H1CD8>>, <<\H1CD9>>, <<\H1CDA>>, <<\H1CDB>>,
          <<\H1CDC>>, <<\H1CDD>>, <<\H1CDE>>, <<\H1CDF>>, <<\H1CE0>>, <<\H1CE1>>,
          <<\H1CE2>>, <<\H1CE3>>, <<\H1CE4>>, <<\H1CE5>>, <<\H1CE6>>, <<\H1CE7>>,
          <<\H1CE8>>, <<\H1CE9>>, <<\H1CEA>>, <<\H1CEB>>, <<\H1CEC>>, <<\H1CED>>,
          <<\H1CEE>>, <<\H1CEF>>, <<\H1CF0>>, <<\H1CF1>>, <<\H1CF2>>, <<\H1CF3>>,
          <<\H1CF4>>, <<\H1CF5>>, <<\H1CF6>> >> >>  \* 189-191

(***************************************************************************)
(* Python dict semantics.  A dict is the sequence of its items in          *)
(* insertion order, keys unique.  Storing under a key that is already      *)
(* present replaces that item's value and keeps its place.                 *)
(***************************************************************************)
Key(item) == item[1]
Forms(item) == item[2]

Keys(d) == {Key(d[j]) : j \in 1..Len(d)}

Get(d, k) == Forms(d[CHOOSE j \in 1..Len(d) : Key(d[j]) = k])

DictSet(d, k, v) ==
    IF k \in Keys(d)
    THEN [j \in 1..Len(d) |-> IF Key(d[j]) = k THEN <<k, v>> ELSE d[j]]
    ELSE Append(d, <<k, v>>)

\* Every form listed in the items of d.
Glyphs(d) == UNION {{Forms(d[j])[m] : m \in 1..Len(Forms(d[j]))} : j \in 1..Len(d)}

\* The forms of every tuple of the "no mapping" inventory.
WithoutMappingGlyphs ==
    UNION {{without_mapping[j][m] : m \in 1..Len(without_mapping[j])}
           : j \in 1..Len(without_mapping)}

\* The glyphs of the "Consonants" and "Nuktaa stuff" sections.
ConsonantGlyphs == Glyphs(Consonants) \cup Glyphs(NuktaaStuff)

VARIABLES
    pc,           \* where the program is: loading, indexing, ready, ...
    n,            \* items of the current display or table handled so far
    priority,     \* the dict braille_to_devanagari_priority as loaded
    table,        \* the dict braille_to_devanagari as loaded
    index,        \* inverted index: Devanagari form -> Braille key
    configError,  \* ConfigurationError raised while indexing
    text,         \* Devanagari side of the current conversion
    brl,          \* Braille side of the current conversion
    dev           \* result of toDevanagari

vars == <<pc, n, priority, table, index, configError, text, brl, dev>>

Init ==
    /\ pc = "load_priority"
    /\ n = 0
    /\ priority = <<>>
    /\ table = <<>>
    /\ index = <<>>
    /\ configError = FALSE
    /\ text = <<>>
    /\ brl = <<>>
    /\ dev = <<>>

(***************************************************************************)
(* Module load: the two dict displays are evaluated item by item.          *)
(***************************************************************************)
LoadPriorityItem ==
    /\ pc = "load_priority"
    /\ n < Len(braille_to_devanagari_priority)
    /\ LET item == braille_to_devanagari_priority[n + 1]
       IN  priority' = DictSet(priority, Key(item), Forms(item))
    /\ n' = n + 1
    /\ UNCHANGED <<pc, table, index, configError, text, brl, dev>>

LoadPriorityDone ==
    /\ pc = "load_priority"
    /\ n = Len(braille_to_devanagari_priority)
    /\ pc' = "load_main"
    /\ n' = 0
    /\ UNCHANGED <<priority, table, index, configError, text, brl, dev>>

LoadMainItem ==
    /\ pc = "load_main"
    /\ n < Len(braille_to_devanagari)
    /\ LET item == braille_to_devanagari[n + 1]
       IN  table' = DictSet(table, Key(item), Forms(item))
    /\ n' = n + 1
    /\ UNCHANGED <<pc, priority, index, configError, text, brl, dev>>

LoadMainDone ==
    /\ pc = "load_main"
    /\ n = Len(braille_to_devanagari)
    /\ pc' = "index"
    /\ n' = 0
    /\ UNCHANGED <<priority, table, index, configError, text, brl, dev>>

(***************************************************************************)
(* Engine construction: the inverted index over the loaded tables,         *)
(* priority table first.  A form already indexed under another key raises  *)
(* ConfigurationError and construction stops.                              *)
(***************************************************************************)
Loaded == priority \o table

IndexPut(ix, k, forms) ==
    [g \in DOMAIN ix \cup {forms[m] : m \in 1..Len(forms)} |->
        IF g \in DOMAIN ix THEN ix[g] ELSE k]

Ambiguous(ix, k, forms) ==
    \E m \in 1..Len(forms) : forms[m] \in DOMAIN ix /\ ix[forms[m]] # k

IndexItem ==
    /\ pc = "index"
    /\ n < Len(Loaded)
    /\ LET item == Loaded[n + 1]
       IN  IF Ambiguous(index, Key(item), Forms(item))
           THEN /\ configError' = TRUE
                /\ pc' = "failed"
                /\ UNCHANGED <<n, index>>
           ELSE /\ index' = IndexPut(index, Key(item), Forms(item))
                /\ n' = n + 1
                /\ UNCHANGED <<pc, configError>>
    /\ UNCHANGED <<priority, table, text, brl, dev>>

IndexDone ==
    /\ pc = "index"
    /\ n = Len(Loaded)
    /\ pc' = "ready"
    /\ UNCHANGED <<n, priority, table, index, configError, text, brl, dev>>

(***************************************************************************)
(* The engine's two operations, over the loaded tables and the index.      *)
(***************************************************************************)
IsPrefix(p, s) == Len(p) <= Len(s) /\ SubSeq(s, 1, Len(p)) = p

Drop(s, m) == SubSeq(s, m + 1, Len(s))

\* The longest member of the set of strings S that s starts with, <<>> if none.
LongestPrefixIn(S, s) ==
    LET hits == {p \in S : IsPrefix(p, s)}
    IN  IF hits = {} THEN <<>>
        ELSE CHOOSE p \in hits : \A q \in hits : Len(q) <= Len(p)

\* toBraille step 1: every occurrence of a priority conjunct is replaced by
\* its Braille key, left to right, non-overlapping, longest match first.
RECURSIVE PriorityPass(_, _, _)
PriorityPass(prio, ix, s) ==
    IF s = <<>> THEN <<>>
    ELSE LET g == LongestPrefixIn(Glyphs(prio), s)
         IN  IF g = <<>>
             THEN <<s[1]>> \o PriorityPass(prio, ix, Tail(s))
             ELSE ix[g] \o PriorityPass(prio, ix, Drop(s, Len(g)))

\* toBraille steps 2 and 4: each remaining character is substituted through
\* the inverted index; a character absent from it is passed through.
RECURSIVE SubstitutePass(_, _)
SubstitutePass(ix, s) ==
    IF s = <<>> THEN <<>>
    ELSE (IF <<s[1]>> \in DOMAIN ix THEN ix[<<s[1]>>] ELSE <<s[1]>>)
         \o SubstitutePass(ix, Tail(s))

\* toBraille.  Step 3 (halanth): the halant's cell is emitted where the
\* halant stands in the input, which is immediately before the cells of
\* whatever follows it; no cell changes place.
toBraille(s) == SubstitutePass(index, PriorityPass(priority, index, s))

\* The first-listed (canonical) Devanagari form of a loaded key.
Canonical(k) == Get(Loaded, k)[1]

IsConsonantKey(k) == k \in Keys(Loaded) /\ Canonical(k) \in ConsonantGlyphs

\* toDevanagari: at each position the longest key of the tables is matched
\* first.  A halant cell that stands before a consonant's key is re-emitted
\* after that consonant's Devanagari form.  An unknown cell passes through.
RECURSIVE toDevanagari(_)
toDevanagari(b) ==
    IF b = <<>> THEN <<>>
    ELSE LET k == LongestPrefixIn(Keys(Loaded), b)
         IN  IF k = <<>>
             THEN <<b[1]>> \o toDevanagari(Tail(b))
             ELSE IF k = halanth
             THEN LET c == LongestPrefixIn(Keys(Loaded), Tail(b))
                  IN  IF c # <<>> /\ IsConsonantKey(c)
                      THEN Canonical(c) \o Canonical(halanth)
                           \o toDevanagari(Drop(b, 1 + Len(c)))
                      ELSE Canonical(halanth) \o toDevanagari(Tail(b))
             ELSE Canonical(k) \o toDevanagari(Drop(b, Len(k)))

(***************************************************************************)
(* Inputs.                                                                 *)
(***************************************************************************)
MaxLen == 4

SeqsUpTo(S, m) == UNION {[1..l -> S] : l \in 0..m}

\* The Devanagari halant as a string.
Halant == <<\H094D>>

Written == braille_to_devanagari_priority \o braille_to_devanagari

\* क ् ष य ा and ॐ (no mapping)
Alphabet == {\H0915, \H094D, \H0937, \H092F, \H093E, \H0950}

\* ⠈ ⠡ ⠴ ⠅ ⠐ ⠗
Cells == {\H2808, \H2821, \H2834, \H2805, \H2810, \H2817}

MaxCtx == 1

\* One or two priority conjuncts with a little text around them.
ConjunctTexts ==
    {a \o f \o b \o g : a \in SeqsUpTo(Alphabet, MaxCtx),
                         b \in SeqsUpTo(Alphabet, MaxCtx),
                         f \in Glyphs(braille_to_devanagari_priority),
                         g \in Glyphs(braille_to_devanagari_priority) \cup {<<>>}}

DevanagariInputs ==
    Glyphs(Written) \cup WithoutMappingGlyphs \cup ConjunctTexts
    \cup {c \o Halant \o x : c \in ConsonantGlyphs,
                             x \in Glyphs(braille_to_devanagari) \cup {<<>>}}
    \cup SeqsUpTo(Alphabet, MaxLen)

BrailleInputs == Keys(Written) \cup SeqsUpTo(Cells, MaxLen)

ToBraille ==
    /\ pc = "ready"
    /\ \E s \in DevanagariInputs :
          /\ text' = s
          /\ brl' = toBraille(s)
    /\ pc' = "brailled"
    /\ UNCHANGED <<n, priority, table, index, configError, dev>>

\* toDevanagari applied to the output of toBraille.
RoundTrip ==
    /\ pc = "brailled"
    /\ dev' = toDevanagari(brl)
    /\ pc' = "round_trip"
    /\ UNCHANGED <<n, priority, table, index, configError, text, brl>>

ToDevanagari ==
    /\ pc = "ready"
    /\ \E b \in BrailleInputs :
          /\ brl' = b
          /\ dev' = toDevanagari(b)
    /\ pc' = "reversed"
    /\ UNCHANGED <<n, priority, table, index, configError, text>>

Next ==
    \/ LoadPriorityItem
    \/ LoadPriorityDone
    \/ LoadMainItem
    \/ LoadMainDone
    \/ IndexItem
    \/ IndexDone
    \/ ToBraille
    \/ RoundTrip
    \/ ToDevanagari

Spec == Init /\ [][Next]_vars

(***************************************************************************)
(* Properties.                                                             *)
(***************************************************************************)
Converted == pc \in {"brailled", "round_trip"}

\* The key under which form g is written in the main table's display.
KeyOfForm(g) ==
    Key(braille_to_devanagari[
        CHOOSE j \in 1..Len(braille_to_devanagari) :
            \E m \in 1..Len(Forms(braille_to_devanagari[j])) :
                Forms(braille_to_devanagari[j])[m] = g])

PriorityConjuncts == Glyphs(braille_to_devanagari_priority)

\* Number of positions of s at which p occurs.
Occurrences(p, s) == Cardinality({i \in 1..Len(s) : IsPrefix(p, Drop(s, i - 1))})

\* text is consonant + halant, possibly followed by one more character.
AfterHalant ==
    /\ Len(text) \in {2, 3}
    /\ <<text[1]>> \in ConsonantGlyphs
    /\ <<text[2]>> = Halant
    /\ text \notin PriorityConjuncts

C1_WitnessTrailing ==
    /\ pc = "brailled"
    /\ text = <<\H0915, \H094D>>
    /\ brl = <<\H2805, \H2808>>

\* The cells that converting the characters of s one by one through the
\* main table's display would give.
RECURSIVE Expansion(_)
Expansion(s) ==
    IF s = <<>> THEN <<>> ELSE KeyOfForm(<<s[1]>>) \o Expansion(Tail(s))

\* text has only characters of Alphabet and of the conjuncts themselves (no
\* nukta variant, whose cell is the plain consonant's).
PlainText ==
    \A i \in 1..Len(text) :
        \/ text[i] \in Alphabet
        \/ \E f \in PriorityConjuncts : \E m \in 1..Len(f) : f[m] = text[i]

\* C2: priority conjuncts convert atomically and before the main table.  For
\* every entry of the priority table, toBraille of its Devanagari sequence is
\* exactly its Braille key (क्ष gives ⠟, ज्ञ gives ⠱), never the three-cell
\* expansion; every occurrence inside a longer input is converted so.
C2_PriorityAtomic ==
    Converted =>
        /\ \A j \in 1..Len(braille_to_devanagari_priority) :
              LET k == Key(braille_to_devanagari_priority[j])
                  f == Forms(braille_to_devanagari_priority[j])[1]
              IN  /\ text = f => brl = k
                  /\ Occurrences(k, brl) = Occurrences(f, text)
                  /\ PlainText => Occurrences(Expansion(f), brl) = 0
        /\ text = <<\H0915, \H094D, \H0937>> => brl = <<\H281F>>
        /\ text = <<\H091C, \H094D, \H091E>> => brl = <<\H2831>>

\* Two conjuncts inside a longer input, each converted to its own key.
C2_Witness ==
    /\ pc = "brailled"
    /\ text = <<\H0915>> \o <<\H0915, \H094D, \H0937>> \o <<\H093E>>
              \o <<\H091C, \H094D, \H091E>>
    /\ brl = <<\H2805, \H281F, \H281C, \H2831>>

\* C3: canonical round trip.  For every Devanagari glyph g of the main table,
\* toDevanagari(toBraille(g)) is the first-listed form of the entry that
\* contains g, not necessarily g itself.
C3_CanonicalRoundTrip ==
    pc = "round_trip" =>
        \A j \in 1..Len(braille_to_devanagari) :
            \A m \in 1..Len(Forms(braille_to_devanagari[j])) :
                text = Forms(braille_to_devanagari[j])[m]
                    => dev = Forms(braille_to_devanagari[j])[1]

\* ृ (third form of its entry) comes back as ॠ.
C3_Witness ==
    /\ pc = "round_trip"
    /\ text = <<\H0943>>
    /\ brl = <<\H2810, \H2817>>
    /\ dev = <<\H0960>>

\* C4: multi-cell greedy matching in toDevanagari.  For every multi-cell key k
\* of the tables, toDevanagari(k) is the first-listed form of k's own entry
\* (⠐⠗ gives ॠ), and a multi-cell key at the start of the input is matched
\* before any single-cell lookup or halant handling.
C4_MultiCellGreedy ==
    pc = "reversed" =>
        /\ \A j \in 1..Len(Written) :
              LET k == Key(Written[j])
              IN  Len(k) > 1 =>
                    /\ brl = k => dev = Forms(Written[j])[1]
                    /\ IsPrefix(k, brl) => IsPrefix(Forms(Written[j])[1], dev)
        /\ brl = <<\H2810, \H2817>> => dev = <<\H0960>>

C4_Witness ==
    /\ pc = "reversed"
    /\ brl = <<\H2810, \H2817>>
    /\ dev = <<\H0960>>

\* ⠈⠡ followed by ⠅: the two-cell key of × wins over halant handling.
C4_WitnessHalant ==
    /\ pc = "reversed"
    /\ brl = <<\H2808, \H2821, \H2805>>
    /\ dev = <<\H00D7, \H0915>>

\* The cells of the digits 0..9 (the letters j, a..i).
DigitCells ==
    <<\H281A, \H2801, \H2803, \H2809, \H2819, \H2811, \H280B, \H281B, \H2813, \H280A>>

KeysListing(d, g) ==
    {Key(d[j]) : j \in {i \in 1..Len(d) :
                          \E m \in 1..Len(Forms(d[i])) : Forms(d[i])[m] = g}}

\* C6: the forward mapping is a function.  Across both tables every
\* Devanagari glyph is listed under at most one Braille key, so building the
\* inverted index raises no ConfigurationError; the error is raised exactly
\* when some glyph is listed under two different keys.
C6_ForwardFunction ==
    /\ ~configError
    /\ pc # "failed"
    /\ pc \in {"ready", "failed"} =>
          (configError <=>
              \E g \in Glyphs(Loaded) : Cardinality(KeysListing(Loaded, g)) > 1)
    /\ pc = "ready" =>
          /\ \A g \in Glyphs(Written) : Cardinality(KeysListing(Written, g)) = 1
          /\ DOMAIN index = Glyphs(Loaded)
          /\ \A g \in DOMAIN index : KeysListing(Loaded, g) = {index[g]}

C6_Witness ==
    /\ pc = "ready"
    /\ ~configError
    /\ n = Len(Loaded)
    /\ index[<<\H0915, \H094D, \H0937>>] = <<\H281F>>
    /\ index[<<\H0958>>] = <<\H2805>>

SixDot(c) == c \in \H2800..\H283F

EightDotOnly(c) == c \in \H2840..\H28FF

\* C7: six-dot output only.  Every cell of every key of both tables, and the
\* halanth constant, lies in U+2800..U+283F, so no cell that toBraille emits
\* by table substitution uses dot 7 or 8 (U+2840..U+28FF).
C7_SixDotOnly ==
    /\ \A i \in 1..Len(halanth) : SixDot(halanth[i])
    /\ \A k \in Keys(priority) \cup Keys(table) : \A i \in 1..Len(k) : SixDot(k[i])
    /\ \A g \in DOMAIN index : \A i \in 1..Len(index[g]) : SixDot(index[g][i])
    /\ Converted =>
          \A i \in 1..Len(brl) :
              /\ ~EightDotOnly(brl[i])
              /\ SixDot(brl[i]) \/ \E m \in 1..Len(text) : text[m] = brl[i]

\* % is substituted by its three-cell key.
C7_Witness ==
    /\ pc = "brailled"
    /\ text = <<\H0025>>
    /\ brl = <<\H2808, \H2834, \H2805>>

\* The first-listed forms of the consonant entries.
CanonicalConsonants ==
    {Forms((Consonants \o NuktaaStuff)[j])[1] : j \in 1..Len(Consonants \o NuktaaStuff)}

\* C8: toDevanagari's halanth step is the inverse of toBraille's: for every
\* pair of canonical consonants C1, C2 whose sequence C1 halant C2 is not a
\* priority conjunct, toDevanagari(toBraille(C1 halant C2)) = C1 halant C2.
C8_HalanthRoundTrip ==
    (/\ pc = "round_trip"
     /\ Len(text) = 3
     /\ <<text[1]>> \in CanonicalConsonants
     /\ <<text[2]>> = Halant
     /\ <<text[3]>> \in CanonicalConsonants
     /\ text \notin PriorityConjuncts)
        => dev = text

\* C9: the "no mapping" inventory lists only characters that have no mapping:
\* none of its glyphs is listed in either table, and toBraille passes each of
\* them through unchanged.
C9_WithoutMappingUnmapped ==
    /\ pc \in {"index", "ready"} =>
          \A g \in WithoutMappingGlyphs : g \notin Glyphs(Loaded)
    /\ (Converted /\ text \in WithoutMappingGlyphs) => brl = text

\* C10: no entry of the main table is lost on load.  Every (key, tuple) pair
\* written in the display is present in the loaded table, so every glyph
\* written is a key of the forward index and is converted by toBraille.
C10_NoEntryLost ==
    /\ pc = "load_main" =>
          \A j \in 1..n :
              /\ Key(braille_to_devanagari[j]) \in Keys(table)
              /\ Get(table, Key(braille_to_devanagari[j])) = Forms(braille_to_devanagari[j])
    /\ pc = "ready" => Glyphs(braille_to_devanagari) \subseteq DOMAIN index
    /\ (Converted /\ text \in Glyphs(braille_to_devanagari)) => brl # text
====
